---- MODULE Spec2Model ----
(***************************************************************************)
(* SklearnPolicy (rasa/core/policies/sklearn_policy.py): the history       *)
(* padder, the feature assembler, the label codec, the prediction          *)
(* reconciler, train, persist and load.                                    *)
(*                                                                         *)
(* Two specifications:                                                     *)
(*   SpecCore  the pure helpers (_fill_in_features, _preprocess_data,      *)
(*             _postprocess_prediction) applied to inputs drawn from       *)
(*             bounded sets;                                               *)
(*   Spec      the life cycle of policy objects: construction, train,      *)
(*             predict_action_probabilities, persist, load.                *)
(***************************************************************************)
EXTENDS Integers, Sequences, FiniteSets, TLC

VARIABLES policies, disk, runs, persisted, last

vars == <<policies, disk, runs, persisted, last>>

----------------------------------------------------------------------------
(* Bounds of the model *)

\* longest dialogue history (turns) drawn as an input
MaxLen == 3
\* widest per-turn field vector drawn as an input
MaxWidth == 2
\* largest batch of histories drawn as an input
MaxBatch == 2
\* domain.num_actions: the size of the full action space
NumActions == 3
\* largest raw class probability drawn (in abstract units, 0 is 0.0)
MaxProb == 2
\* number of train calls explored in one behaviour
MaxTrain == 1
\* number of policy objects created in one behaviour
MaxPolicies == 2

----------------------------------------------------------------------------
(* Python values *)

\* Python's None, for the Optional[int] arguments (max_history, cv)
None == -1

\* truth value of an Optional[int]: None and 0 are falsy
Truthy(v) == v # None /\ v # 0

\* a call that returns v
Ok(v) == [ok |-> TRUE, err |-> "", val |-> v]

\* a call that raises the exception e
Raise(e) == [ok |-> FALSE, err |-> e, val |-> <<>>]

\* [x] * n for a Python list: n <= 0 gives the empty list
ListRepeat(x, n) == [j \in 1..n |-> x]

RECURSIVE Flatten(_)
\* the concatenation of a list of lists
Flatten(list) ==
    IF Len(list) = 0 THEN <<>> ELSE Head(list) \o Flatten(Tail(list))

RECURSIVE SumSeq(_)
SumSeq(s) == IF Len(s) = 0 THEN 0 ELSE Head(s) + SumSeq(Tail(s))

\* the largest element of a non-empty set of integers
MaxOf(S) == CHOOSE m \in S : \A n \in S : n <= m

\* the elements of a set of integers in ascending order
SortedSeq(S) ==
    CHOOSE s \in [1..Cardinality(S) -> S] :
        \A i, j \in 1..Cardinality(S) : i < j => s[i] < s[j]

----------------------------------------------------------------------------
(* numpy: a per-turn field vector is an array of shape (1, W), modelled as  *)
(* the sequence of its W entries; a matrix is the sequence of its rows.    *)

\* np.hstack of a list of (1, W) arrays
hstack(arrays) ==
    IF Len(arrays) = 0 THEN Raise("ValueError") ELSE Ok(Flatten(arrays))

\* np.vstack of a list of (1, C) arrays: every row must have the same C
vstack(rows) ==
    IF Len(rows) = 0 THEN Raise("ValueError")
    ELSE IF \E i \in 1..Len(rows) : Len(rows[i]) # Len(rows[1])
         THEN Raise("ValueError")
         ELSE Ok(rows)

----------------------------------------------------------------------------
(* History padder *)

\* np.ones((1, shape_of_input)) * -1
SentinelVector(shape_of_input) == [j \in 1..shape_of_input |-> -1]

\* a padder that truncates the history to max_length turns
fill_in_features_truncating(state_features, max_length) ==
    IF Len(state_features) = 0 THEN Raise("IndexError")
    ELSE IF Len(state_features) >= max_length
         THEN Ok(SubSeq(state_features,
                        Len(state_features) - max_length + 1,
                        Len(state_features)))
         ELSE Ok(ListRepeat(SentinelVector(Len(state_features[1])),
                            max_length - Len(state_features))
                 \o state_features)

\* a padder that appends the sentinels instead of prepending them
fill_in_features_appending(state_features, max_length) ==
    IF Len(state_features) = max_length THEN Ok(state_features)
    ELSE IF Len(state_features) = 0 THEN Raise("IndexError")
         ELSE Ok(state_features
                 \o ListRepeat(SentinelVector(Len(state_features[1])),
                               max_length - Len(state_features)))

\* SklearnPolicy._fill_in_features
_fill_in_features(state_features, max_length) ==
    IF Len(state_features) = max_length THEN Ok(state_features)
    ELSE IF Len(state_features) = 0
         THEN Raise("IndexError")   \* state_features[0]
         ELSE Ok(ListRepeat(SentinelVector(Len(state_features[1])),
                            max_length - Len(state_features))
                 \o state_features)

----------------------------------------------------------------------------
(* Feature assembler.  A row of X is one history: the sequence of its      *)
(* turns, each a record of the three field vectors the code reads from     *)
(* columns 2, 6 and 8.                                                     *)

Fields == <<"intent", "previous_action", "slots">>

\* row[:, c] for the column of field f
Column(row, f) == [t \in 1..Len(row) |-> row[t][f]]

\* SklearnPolicy._get_max_dialogue_length
_get_max_dialogue_length(X) ==
    IF Len(X) = 0 THEN Raise("ValueError")   \* max([])
    ELSE Ok(MaxOf({Len(X[i]) : i \in 1..Len(X)}))

\* an effective length that ignores the configured max_history
max_dialogue_length_batch_only(max_history, X) ==
    _get_max_dialogue_length(X)

\* self.featurizer.max_history or self._get_max_dialogue_length(X)
max_dialogue_length(max_history, X) ==
    IF Truthy(max_history) THEN Ok(max_history)
    ELSE _get_max_dialogue_length(X)

\* the loop body of _collect_features for one row and one field
StateFeatures(row, f, max_length) ==
    LET filled == _fill_in_features(Column(row, f), max_length)
    IN  IF filled.ok THEN hstack(filled.val) ELSE filled

\* SklearnPolicy._collect_features
_collect_features(max_history, X) ==
    LET m == max_dialogue_length(max_history, X)
    IN  IF ~m.ok THEN m
        ELSE
        LET feat(i, k) == StateFeatures(X[i], Fields[k], m.val)
            errs == {e \in (1..Len(X)) \X (1..3) : ~feat(e[1], e[2]).ok}
            first == CHOOSE e \in errs : \A d \in errs :
                        e[1] < d[1] \/ (e[1] = d[1] /\ e[2] <= d[2])
            X_intent == vstack([i \in 1..Len(X) |-> feat(i, 1).val])
            X_previous_action == vstack([i \in 1..Len(X) |-> feat(i, 2).val])
            X_slots == vstack([i \in 1..Len(X) |-> feat(i, 3).val])
        IN  IF errs # {} THEN feat(first[1], first[2])
            ELSE IF ~X_intent.ok THEN X_intent
            ELSE IF ~X_previous_action.ok THEN X_previous_action
            ELSE IF ~X_slots.ok THEN X_slots
            ELSE Ok(<<X_intent.val, X_previous_action.val, X_slots.val>>)

\* SklearnPolicy._preprocess_data
_preprocess_data(max_history, X) ==
    LET c == _collect_features(max_history, X)
    IN  IF ~c.ok THEN c
        ELSE Ok([i \in 1..Len(X) |-> c.val[1][i] \o c.val[2][i] \o c.val[3][i]])

----------------------------------------------------------------------------
(* Label codec (sklearn's LabelEncoder as the policy uses it).  id names    *)
(* the Python object, classes is classes_ once fit, run is the train call  *)
(* that fit it (0: never fit).                                             *)

\* the one LabelEncoder() built when __init__ is defined (its default)
DefaultLabelEncoder ==
    [id |-> <<"default", 0>>, fitted |-> FALSE, classes |-> <<>>, run |-> 0]

\* clone(label_encoder): a new unfitted object
clone_encoder(label_encoder, new_id) ==
    [id |-> new_id, fitted |-> FALSE, classes |-> <<>>, run |-> 0]

\* label_encoder.fit(y)
fit_encoder(label_encoder, y) ==
    [label_encoder EXCEPT !.fitted = TRUE,
                          !.classes = SortedSeq({y[i] : i \in 1..Len(y)})]

\* label_encoder.transform(y)
transform(label_encoder, y) ==
    LET classes == label_encoder.classes
        code(l) == (CHOOSE k \in 1..Len(classes) : classes[k] = l) - 1
    IN  IF \E i \in 1..Len(y) : \A k \in 1..Len(classes) : classes[k] # y[i]
        THEN Raise("ValueError")
        ELSE Ok([i \in 1..Len(y) |-> code(y[i])])

\* label_encoder.inverse_transform(codes)
inverse_transform(label_encoder, codes) ==
    IF ~label_encoder.fitted THEN Raise("NotFittedError")
    ELSE IF \E i \in 1..Len(codes) :
                codes[i] < 0 \/ codes[i] >= Len(label_encoder.classes)
         THEN Raise("ValueError")
         ELSE Ok([i \in 1..Len(codes) |-> label_encoder.classes[codes[i] + 1]])

----------------------------------------------------------------------------
(* Prediction reconciler *)

\* a reconciler that writes each probability at its code, not its label
postprocess_prediction_by_code(label_encoder, y_proba, num_actions) ==
    LET yp == y_proba[1]
    IN  Ok([a \in 1..num_actions |-> IF a <= Len(yp) THEN yp[a] ELSE 0])

\* SklearnPolicy._postprocess_prediction; the result is indexed 1..num_actions,
\* entry a standing for y_filled[a - 1]
_postprocess_prediction(label_encoder, y_proba, num_actions) ==
    LET yp == y_proba[1]
        indices == inverse_transform(label_encoder,
                                     [k \in 1..Len(yp) |-> k - 1])
    IN  IF ~indices.ok THEN indices
        ELSE IF \E k \in 1..Len(yp) : indices.val[k] >= num_actions
             THEN Raise("IndexError")   \* y_filled[i] = pred
             ELSE Ok([a \in 1..num_actions |->
                        LET ks == {k \in 1..Len(yp) : indices.val[k] = a - 1}
                        IN  IF ks = {} THEN 0 ELSE yp[MaxOf(ks)]])

----------------------------------------------------------------------------
(* State.                                                                  *)
(*   policies   the SklearnPolicy objects created so far, in creation order *)
(*   disk       the directory persist writes to and load reads             *)
(*   runs       the number of train calls that reached the codec refit     *)
(*   persisted  the policy as it was when persist last wrote it            *)
(*   last       the last call made: its arguments and its outcome          *)

\* the directory before anything is written to it
EmptyDisk == [exists |-> FALSE, featurizer |-> <<>>, meta |-> <<>>, pkl |-> <<>>]

Init ==
    /\ policies = <<>>
    /\ disk = EmptyDisk
    /\ runs = 0
    /\ persisted = <<>>
    /\ last = [op |-> "none"]

----------------------------------------------------------------------------
(* SpecCore: the pure helpers on inputs drawn from bounded sets *)

\* the full action space 0..domain.num_actions-1
Actions == 0..(NumActions - 1)

\* per-turn field vectors of width 1..MaxWidth, filled with 0 or with 1
Vectors == {[j \in 1..w |-> v] : w \in 1..MaxWidth, v \in {0, 1}}

\* lists of per-turn vectors of 0..MaxLen turns
TurnLists == UNION {[1..n -> Vectors] : n \in 0..MaxLen}

\* the t-th turn of a history whose fields have the widths w
Turn(t, w) ==
    [intent |-> [j \in 1..w[1] |-> t % 2],
     previous_action |-> [j \in 1..w[2] |-> (t + 1) % 2],
     slots |-> [j \in 1..w[3] |-> 1]]

\* a history of len turns
History(len, w) == [t \in 1..len |-> Turn(t, w)]

\* a batch with one history per entry of lens
Batch(lens, w) == [i \in 1..Len(lens) |-> History(lens[i], w)]

\* the turn counts of batches of 1..MaxBatch histories, empty ones included
BatchLens == UNION {[1..n -> 0..MaxLen] : n \in 1..MaxBatch}

\* the widths of the three fields
FieldWidths == (1..MaxWidth) \X (1..MaxWidth) \X (1..MaxWidth)

\* Optional[int] values of max_history
MaxHistories == {None} \cup 0..MaxLen

\* the calls SpecCore makes: the function, its arguments, and no result yet
CoreCalls ==
    {[op |-> "_fill_in_features", done |-> FALSE,
      state_features |-> state_features, max_length |-> max_length]
        : state_features \in TurnLists, max_length \in 0..(MaxLen + 1)}
    \cup
    {[op |-> "_preprocess_data", done |-> FALSE,
      max_history |-> max_history, X |-> Batch(lens, w)]
        : max_history \in MaxHistories, lens \in BatchLens, w \in FieldWidths}
    \cup
    UNION {{[op |-> "_postprocess_prediction", done |-> FALSE,
             labels |-> S, y_proba |-> <<yp>>]
               : yp \in [1..Cardinality(S) -> 0..MaxProb]}
             : S \in SUBSET Actions}

InitCore ==
    /\ policies = <<>>
    /\ disk = EmptyDisk
    /\ runs = 0
    /\ persisted = <<>>
    /\ last \in CoreCalls

\* the call's outcome, kept beside its arguments
Return(call, result) ==
    [f \in DOMAIN call \cup {"result"} |->
        IF f = "result" THEN result
        ELSE IF f = "done" THEN TRUE
        ELSE call[f]]

FillInFeatures ==
    /\ last.op = "_fill_in_features" /\ ~last.done
    /\ last' = Return(last, _fill_in_features(last.state_features,
                                               last.max_length))
    /\ UNCHANGED <<policies, disk, runs, persisted>>

PreprocessData ==
    /\ last.op = "_preprocess_data" /\ ~last.done
    /\ last' = Return(last, _preprocess_data(last.max_history, last.X))
    /\ UNCHANGED <<policies, disk, runs, persisted>>

PostprocessPrediction ==
    /\ last.op = "_postprocess_prediction" /\ ~last.done
    /\ LET label_encoder ==
               fit_encoder(clone_encoder(DefaultLabelEncoder, <<"clone", 1>>),
                           SortedSeq(last.labels))
       IN  last' = Return(last, _postprocess_prediction(label_encoder,
                                                        last.y_proba,
                                                        NumActions))
    /\ UNCHANGED <<policies, disk, runs, persisted>>

CoreNext == FillInFeatures \/ PreprocessData \/ PostprocessPrediction

SpecCore == InitCore /\ [][CoreNext]_vars

----------------------------------------------------------------------------
(* Claims about the pure helpers, checked under SpecCore *)

\* C1: reconciliation. For labels S seen in training, S a subset of the action
\* space, and a raw probability vector of length |S| in code order, the result
\* has length num_actions, is 0 at every action outside S, carries at each
\* label of S the raw probability of that label's code (the number of smaller
\* labels in S), and its entries for S sum to the raw total.
C1_Reconciliation ==
    (last.op = "_postprocess_prediction" /\ last.done) =>
        LET S == last.labels
            yp == last.y_proba[1]
            out == last.result.val
            code(l) == Cardinality({x \in S : x < l})
        IN  /\ last.result.ok
            /\ Len(out) = NumActions
            /\ \A a \in Actions \ S : out[a + 1] = 0
            /\ \A l \in S : out[l + 1] = yp[code(l) + 1]
            /\ SumSeq([k \in 1..Cardinality(S) |-> out[SortedSeq(S)[k] + 1]])
                  = SumSeq(yp)

\* C1 witness: a proper subset of the action space whose smallest label is
\* not action 0 was reconciled, with a non-zero raw probability
C1_Witness ==
    /\ last.op = "_postprocess_prediction" /\ last.done
    /\ last.result.ok
    /\ last.labels # {} /\ last.labels # Actions /\ 0 \notin last.labels
    /\ \E k \in 1..Len(last.y_proba[1]) : last.y_proba[1][k] > 0

\* C2: padding shape. A non-empty list of L <= max_length turns is padded to
\* exactly max_length entries: first max_length - L vectors of -1 as wide as
\* the first real vector, then the L original turns in order.
C2_PaddingShape ==
    (/\ last.op = "_fill_in_features" /\ last.done
     /\ Len(last.state_features) >= 1
     /\ Len(last.state_features) <= last.max_length) =>
        LET x == last.state_features
            m == last.max_length
            L == Len(x)
            out == last.result.val
        IN  /\ last.result.ok
            /\ Len(out) = m
            /\ \A j \in 1..(m - L) :
                  /\ Len(out[j]) = Len(x[1])
                  /\ \A c \in 1..Len(out[j]) : out[j][c] = -1
            /\ \A j \in 1..L : out[m - L + j] = x[j]

\* C2 witness: a history of two different turns was padded with at least two
\* sentinels
C2_Witness ==
    /\ last.op = "_fill_in_features" /\ last.done
    /\ last.result.ok
    /\ Len(last.state_features) = 2
    /\ last.state_features[1] # last.state_features[2]
    /\ last.max_length >= 4

\* C3: padding idempotence. A non-empty list already at or above max_length
\* is returned unchanged (no truncation), and padding the padded list again
\* with the same max_length changes nothing.
C3_PaddingIdempotent ==
    (/\ last.op = "_fill_in_features" /\ last.done
     /\ Len(last.state_features) >= 1) =>
        /\ last.result.ok
        /\ Len(last.state_features) >= last.max_length
              => last.result.val = last.state_features
        /\ _fill_in_features(last.result.val, last.max_length) = last.result

\* C3 witness: a history longer than max_length went through the padder
C3_Witness ==
    /\ last.op = "_fill_in_features" /\ last.done
    /\ last.result.ok
    /\ last.max_length >= 1
    /\ Len(last.state_features) > last.max_length

\* C4: the padder fails on an empty turn list for every max_length, 0
\* included; it never returns normally
C4_EmptyRejected ==
    (/\ last.op = "_fill_in_features" /\ last.done
     /\ Len(last.state_features) = 0) => ~last.result.ok

----------------------------------------------------------------------------
(* The classifier (an sklearn estimator as the policy uses it): its         *)
(* hyperparameter C, whether it is fit, the shape it was fit on, and the    *)
(* train call that fit it (0: never fit).                                   *)

\* SklearnPolicy._default_model
_default_model == [C |-> 1, fitted |-> FALSE, n_features |-> 0, n_classes |-> 0, run |-> 0]

\* bool(model): an estimator defines neither __bool__ nor __len__, so every
\* instance is truthy, fit or not
bool_estimator(model) == TRUE

\* clone(model): a new unfitted estimator with the same hyperparameters
clone_estimator(model) == [_default_model EXCEPT !.C = model.C]

\* model.fit(Xt, yt)
fit_estimator(model, Xt, yt, run) ==
    [model EXCEPT !.fitted = TRUE,
                  !.n_features = Len(Xt[1]),
                  !.n_classes = Cardinality({yt[i] : i \in 1..Len(yt)}),
                  !.run = run]

\* model.predict_proba(Xt): one row of n_classes probabilities, a fixed
\* function of the fitted model and the features
predict_proba(model, Xt) ==
    IF ~model.fitted THEN Raise("NotFittedError")
    ELSE IF Len(Xt[1]) # model.n_features THEN Raise("ValueError")
    ELSE Ok(<<[k \in 1..model.n_classes |->
                (k + model.C + model.run + SumSeq(Xt[1]) + 3 * MaxLen)
                    % (MaxProb + 1)]>>)

----------------------------------------------------------------------------
(* SklearnPolicy *)

\* rasa.core.constants.DEFAULT_POLICY_PRIORITY
DEFAULT_POLICY_PRIORITY == 1

\* the featurizer Policy.__init__ builds when none is passed
StandardFeaturizer == [kind |-> "MaxHistoryTrackerFeaturizer", max_history |-> None]

\* self._pickle_params without the label encoder
pickle_params_without_encoder == {"model", "cv", "param_grid", "scoring"}

\* self._pickle_params
_pickle_params == {"model", "cv", "param_grid", "scoring", "label_encoder"}

\* SklearnPolicy.__init__ on the record of its arguments; an absent
\* featurizer, model or param_grid is <<>>, a given one <<value>>
__init__(args) ==
    IF args.featurizer # <<>>
       /\ args.featurizer[1].kind # "MaxHistoryTrackerFeaturizer"
    THEN Raise("TypeError")
    ELSE Ok([featurizer |-> IF args.featurizer # <<>> THEN args.featurizer[1]
                            ELSE StandardFeaturizer,
             priority |-> args.priority,
             model |-> IF args.model # <<>> /\ bool_estimator(args.model[1])
                       THEN args.model[1] ELSE _default_model,
             cv |-> args.cv,
             param_grid |-> args.param_grid,
             scoring |-> args.scoring,
             label_encoder |-> args.label_encoder,
             shuffle |-> args.shuffle,
             train_params |-> args.kwargs])

\* the defaults of __init__'s parameters
DefaultArgs ==
    [featurizer |-> <<>>, priority |-> DEFAULT_POLICY_PRIORITY, model |-> <<>>,
     param_grid |-> <<>>, cv |-> None, scoring |-> "accuracy",
     label_encoder |-> DefaultLabelEncoder, shuffle |-> TRUE, kwargs |-> None]

\* SklearnPolicy._state
_state(self) == [attr \in _pickle_params |-> self[attr]]

\* SklearnPolicy.model_architecture: set_params on self.model itself; the
\* keyword C, when given, is one the estimator accepts
model_architecture(model, train_params) ==
    IF train_params = None THEN model ELSE [model EXCEPT !.C = train_params]

\* the param_grid train hands to the search: self.param_grid or {}
search_grid(self) ==
    IF self.param_grid = <<>> THEN {} ELSE self.param_grid[1]

\* the hyperparameter settings a grid search over param_grid tries
Candidates(model, param_grid) ==
    IF param_grid = {} THEN {model.C} ELSE param_grid

\* SklearnPolicy._search_and_score; best is the setting the search finds best
_search_and_score(self, model, X, y, param_grid, best, run) ==
    [search |-> [param_grid |-> param_grid, cv |-> self.cv,
                 scoring |-> "accuracy"],
     best_estimator_ |->
         fit_estimator([clone_estimator(model) EXCEPT !.C = best], X, y, run),
     best_score_ |-> <<1>>]

\* no grid search was run
NoSearch == [param_grid |-> {}, cv |-> None, scoring |-> ""]

\* sklearn.utils.shuffle(X, y): the same permutation of both
Permute(s, perm) == [i \in 1..Len(s) |-> s[perm[i]]]

\* the permutations of 1..n
Perms(n) == {f \in [1..n -> 1..n] : \A i, j \in 1..n : i # j => f[i] # f[j]}

\* SklearnPolicy.train on the featurized batch (X0, y0), as its run-th call;
\* self is the policy after the call, returned or raised
train(self, X0, y0, kwargs, perm, best, run) ==
    LET X == IF self.shuffle THEN Permute(X0, perm) ELSE X0
        y == IF self.shuffle THEN Permute(y0, perm) ELSE y0
        train_params == IF kwargs = None THEN self.train_params ELSE kwargs
        model == model_architecture(self.model, train_params)
        label_encoder ==
            [fit_encoder(clone_encoder(self.label_encoder, <<"clone", run>>), y)
                EXCEPT !.run = run]
        refit == [self EXCEPT !.train_params = train_params,
                              !.model = model,
                              !.label_encoder = label_encoder]
        Xt == _preprocess_data(self.featurizer.max_history, X)
        yt == transform(label_encoder, y)
        found == _search_and_score(self, model, Xt.val, yt.val,
                                   search_grid(self), best, run)
    IN  IF ~Xt.ok
        THEN [self |-> refit, ok |-> FALSE, err |-> Xt.err, path |-> "",
              search |-> NoSearch, score |-> <<>>]
        ELSE IF self.cv = None
        THEN [self |-> [refit EXCEPT !.model =
                           fit_estimator(clone_estimator(model), Xt.val,
                                         yt.val, run)],
              ok |-> TRUE, err |-> "", path |-> "fit",
              search |-> NoSearch, score |-> <<>>]
        ELSE [self |-> [refit EXCEPT !.model = found.best_estimator_],
              ok |-> TRUE, err |-> "", path |-> "search",
              search |-> found.search, score |-> found.best_score_]

\* self.featurizer.persist(path): the featurizer's file holds its
\* configuration
featurizer_persist(featurizer) == <<featurizer>>

\* TrackerFeaturizer.load(path): the featurizer the file describes
TrackerFeaturizer_load(file) == file[1]

\* SklearnPolicy.predict_action_probabilities for a tracker whose featurized
\* history is X
predict_action_probabilities(self, X) ==
    LET Xt == _preprocess_data(self.featurizer.max_history, X)
        y_proba == predict_proba(self.model, Xt.val)
    IN  IF ~Xt.ok THEN Xt
        ELSE IF ~y_proba.ok THEN y_proba
        ELSE _postprocess_prediction(self.label_encoder, y_proba.val, NumActions)

\* SklearnPolicy.persist: the directory after the call, the files written
\* and whether the warning was raised
persist(self, dir) ==
    IF bool_estimator(self.model)
    THEN [disk |-> [exists |-> TRUE,
                    featurizer |-> featurizer_persist(self.featurizer),
                    meta |-> <<[priority |-> self.priority]>>,
                    pkl |-> <<_state(self)>>],
          written |-> {"featurizer", "sklearn_policy.json", "sklearn_model.pkl"},
          warned |-> FALSE]
    ELSE [disk |-> dir, written |-> {}, warned |-> TRUE]

\* pickle_load: the pickled objects come back as new objects
pickle_load(blob, slot) ==
    [attr \in DOMAIN blob |->
        IF attr = "label_encoder"
        THEN [blob[attr] EXCEPT !.id = <<"pickle", slot>>]
        ELSE blob[attr]]

\* SklearnPolicy.load
load(dir, slot) ==
    IF ~dir.exists THEN Raise("OSError")
    ELSE LET featurizer == TrackerFeaturizer_load(dir.featurizer)
             meta == dir.meta[1]
             policy == __init__([DefaultArgs EXCEPT
                                     !.featurizer = <<featurizer>>,
                                     !.priority = meta.priority]).val
             state == pickle_load(dir.pkl[1], slot)
         IN  IF featurizer.kind # "MaxHistoryTrackerFeaturizer"
             THEN Raise("AssertionError")
             ELSE Ok([attr \in DOMAIN policy |->
                        IF attr \in DOMAIN state THEN state[attr]
                        ELSE policy[attr]])

----------------------------------------------------------------------------
(* Spec: the life cycle of policy objects *)

\* the constructor calls made for the policy in the given slot:
\* SklearnPolicy(); one with every argument given (a featurizer with a
\* max_history, a priority, a model, a grid search scored by f1, its own
\* label encoder, no shuffling, the keyword C=1 kept for the model); and one
\* with a featurizer of the wrong type
CtorArgs(slot) ==
    {DefaultArgs,
     [featurizer |-> <<[kind |-> "MaxHistoryTrackerFeaturizer",
                        max_history |-> 2]>>,
      priority |-> 5,
      model |-> <<[_default_model EXCEPT !.C = 2]>>,
      param_grid |-> <<{1, 2}>>,
      cv |-> 2,
      scoring |-> "f1",
      label_encoder |-> [DefaultLabelEncoder EXCEPT !.id = <<"arg", slot>>],
      shuffle |-> FALSE,
      kwargs |-> 1],
     [DefaultArgs EXCEPT
        !.featurizer = <<[kind |-> "FullDialogueTrackerFeaturizer",
                          max_history |-> None]>>]}

\* the histories the featurizer yields in Spec: every field one wide
UnitWidths == <<1, 1, 1>>

\* the keyword arguments of the train calls: none
TrainKwargs == {None}

\* the featurized training data (turn counts and labels) of the train calls;
\* the last one holds an empty history
TrainingData ==
    {[lens |-> <<1, 2>>, y |-> <<1, 0>>],
     [lens |-> <<2>>, y |-> <<2>>],
     [lens |-> <<0, 1>>, y |-> <<2, 0>>]}

Construct ==
    /\ Len(policies) < MaxPolicies
    /\ \E args \in CtorArgs(Len(policies) + 1) :
          LET made == __init__(args)
          IN  /\ policies' = IF made.ok THEN Append(policies, made.val)
                             ELSE policies
              /\ last' = [op |-> "__init__", ok |-> made.ok, err |-> made.err,
                          pol |-> IF made.ok THEN Len(policies) + 1 ELSE 0]
    /\ UNCHANGED <<disk, runs, persisted>>

Train(p) ==
    /\ runs < MaxTrain
    /\ \E data \in TrainingData, kwargs \in TrainKwargs :
       \E perm \in Perms(Len(data.y)) :
       \E best \in Candidates(model_architecture(policies[p].model,
                                 IF kwargs = None
                                 THEN policies[p].train_params ELSE kwargs),
                              search_grid(policies[p])) :
          LET self == policies[p]
              call == train(self, Batch(data.lens, UnitWidths), data.y, kwargs,
                            perm, best, runs + 1)
          IN  /\ policies' = [policies EXCEPT ![p] = call.self]
              /\ last' = [op |-> "train", pol |-> p, ok |-> call.ok,
                          err |-> call.err, path |-> call.path,
                          search |-> call.search, score |-> call.score,
                          before_model |-> self.model,
                          before_codec |-> self.label_encoder]
    /\ runs' = runs + 1
    /\ UNCHANGED <<disk, persisted>>

Predict(p) ==
    /\ \E len \in 1..2 :
          last' = [op |-> "predict_action_probabilities", pol |-> p,
                   X |-> Batch(<<len>>, UnitWidths),
                   result |-> predict_action_probabilities(
                                  policies[p], Batch(<<len>>, UnitWidths))]
    /\ UNCHANGED <<policies, disk, runs, persisted>>

Persist(p) ==
    /\ LET call == persist(policies[p], disk)
       IN  /\ disk' = call.disk
           /\ persisted' = IF call.written # {} THEN <<policies[p]>>
                           ELSE persisted
           /\ last' = [op |-> "persist", pol |-> p, written |-> call.written,
                       warned |-> call.warned]
    /\ UNCHANGED <<policies, runs>>

Load ==
    /\ Len(policies) < MaxPolicies
    /\ LET made == load(disk, Len(policies) + 1)
       IN  /\ policies' = IF made.ok THEN Append(policies, made.val)
                          ELSE policies
           /\ last' = [op |-> "load", ok |-> made.ok, err |-> made.err,
                       pol |-> IF made.ok THEN Len(policies) + 1 ELSE 0]
    /\ UNCHANGED <<disk, runs, persisted>>

Next ==
    \/ Construct
    \/ Load
    \/ \E p \in 1..Len(policies) : Train(p)
    \/ \E p \in 1..Len(policies) : Predict(p)
    \/ \E p \in 1..Len(policies) : Persist(p)

Spec == Init /\ [][Next]_vars

----------------------------------------------------------------------------
(* Claims about the life cycle, checked under Spec *)

\* C5: persist on a policy whose model was never fit writes no file, raises
\* the warning and no exception
C5_PersistUntrainedWritesNothing ==
    (/\ last.op = "persist"
     /\ ~policies[last.pol].model.fitted) =>
        /\ last.written = {}
        /\ last.warned

\* the featurized histories of the trackers predictions are compared on
Trackers == {Batch(<<len>>, UnitWidths) : len \in 1..MaxLen}

\* C6: persist/load round trip. The loaded policy has the featurizer
\* configuration, model, label codec, cv, param_grid, scoring and priority of
\* the policy that was persisted, and predicts the same on every tracker.
C6_RoundTrip ==
    (last.op = "load" /\ last.ok) =>
        LET loaded == policies[last.pol]
            P == persisted[1]
        IN  /\ loaded.featurizer = P.featurizer
            /\ loaded.model = P.model
            /\ loaded.label_encoder.fitted = P.label_encoder.fitted
            /\ loaded.label_encoder.classes = P.label_encoder.classes
            /\ loaded.cv = P.cv
            /\ loaded.param_grid = P.param_grid
            /\ loaded.scoring = P.scoring
            /\ loaded.priority = P.priority
            /\ \A X \in Trackers :
                  predict_action_probabilities(loaded, X)
                      = predict_action_probabilities(P, X)

\* C6 witness: a trained policy with a max_history, a priority, a grid and a
\* scoring of its own was persisted and loaded, and the loaded policy
\* predicts a probability vector
C6_Witness ==
    /\ last.op = "load" /\ last.ok
    /\ persisted[1].model.fitted
    /\ persisted[1].priority # DEFAULT_POLICY_PRIORITY
    /\ persisted[1].cv # None
    /\ persisted[1].featurizer.max_history # None
    /\ Len(persisted[1].label_encoder.classes) = 2
    /\ \E X \in Trackers :
          predict_action_probabilities(policies[last.pol], X).ok

\* C8: train replaces the state wholesale and only on success. A failed call
\* leaves the model and the label codec as they were before it, so the codec
\* and the model of a policy always come from the same training run.
C8_TrainAtomic ==
    /\ (last.op = "train" /\ ~last.ok) =>
          /\ policies[last.pol].model = last.before_model
          /\ policies[last.pol].label_encoder = last.before_codec
    /\ \A p \in 1..Len(policies) :
          policies[p].label_encoder.run = policies[p].model.run

\* C9: train fits directly and computes no score when cv is None; otherwise
\* it searches the configured param_grid with cv folds under the policy's
\* configured scoring, installs the best estimator and reports its score
C9_TrainPath ==
    (last.op = "train" /\ last.ok) =>
        LET self == policies[last.pol]
        IN  /\ self.cv = None =>
                /\ last.path = "fit"
                /\ last.score = <<>>
            /\ self.cv # None =>
                /\ last.path = "search"
                /\ last.search.cv = self.cv
                /\ last.search.param_grid =
                      (IF self.param_grid = <<>> THEN {} ELSE self.param_grid[1])
                /\ last.search.scoring = self.scoring
                /\ self.model.fitted
                /\ last.score # <<>>

\* C10: no two policy objects share a label codec object, trained or not
C10_CodecNotShared ==
    \A p, q \in 1..Len(policies) :
        p # q => policies[p].label_encoder.id # policies[q].label_encoder.id

====
